---- MODULE Spec2Model ----
(***************************************************************************)
(* A model of environments/grid_world.py: the GridWorld episode engine.    *)
(* Coordinates are pairs <<x, y>>; Python lists and arrays are functions   *)
(* over 0..n-1 so that indices read as in the source; the trajectory log   *)
(* is a sequence.  Probabilities are exact rationals, kept as integer      *)
(* numerators over the common denominator 2 * ProbDen.                     *)
(***************************************************************************)
EXTENDS Integers, Sequences, FiniteSets, Bags, TLC

VARIABLES
    args,                     \* the constructor's arguments that are not kept as fields
    height, width,            \* self.height, self.width
    actions,                  \* self.actions
    transition_probabilities, \* self.transition_probabilities
    terminal_states,          \* self.terminal_states
    barrier_states,           \* self.barrier_states
    initial_state,            \* self.initial_state
    rewards,                  \* self.rewards
    task, distinct_rewards,   \* self.task, self.distinct_rewards
    state, encoded_state,     \* self.state, self.encoded_state
    transitions,              \* self.transitions
    weights, n_weights,       \* self.weights, self.n_weights
    barrier_set, danger_sets, \* self.barrier_set, self.danger_sets
    pc,                       \* where the caller stands: see PcValues
    draw,                     \* reset's locals (x, y) while it loops, and the turn's parity
    pi,                       \* plot_trajectory's argument, as far as it has been read
    query,                    \* the arguments of the last call of a pure method
    ret                       \* what the last call returned or raised

config == <<args, height, width, actions, transition_probabilities, terminal_states,
            barrier_states, initial_state, rewards, task, distinct_rewards>>
derived == <<weights, n_weights, barrier_set, danger_sets>>
vars == <<config, derived, state, encoded_state, transitions, pc, draw, pi, query, ret>>

----------------------------------------------------------------------------
(* Bounds of the model. *)
MaxDim == 2          \* height and width range over 1..MaxDim
MaxSteps == 2        \* step is called at most this many times between two resets
ProbDen == 2         \* proba ranges over 0/ProbDen .. ProbDen/ProbDen

(* Program constants. *)
UP == 0
RIGHT == 1
DOWN == 2
LEFT == 3
DefaultDistinctRewards == 3

None == <<>>
NoInt == -1
TaskA == "Varying Blocks, Same Values"
TaskB == "Same Blocks, Varying Values"
PcValues == {"new", "init_reset", "ready", "reset", "plot", "failed", "pure"}

Cells(h, w) == {<<x, y>> : x \in 0..(w - 1), y \in 0..(h - 1)}
DefaultActions == [i \in 0..3 |-> i]

----------------------------------------------------------------------------
(* The injected reward distribution (stochastic_reward.StochasticReward):  *)
(* a point mass when deterministic.                                        *)
StochasticReward(v) == [deterministic |-> TRUE, mean |-> v]
expected_value(r) == r.mean
sample(r) == r.mean

n_states == height * width
n_actions == Cardinality(DOMAIN actions)

(* Line 63: [proba] + [(1 - proba) / (n - 2)] * (n - 2) + [0] with n = 4,  *)
(* in units of 1 / (2 * ProbDen), for proba = k / ProbDen.                 *)
TransitionProbabilities(k) ==
    [i \in 0..3 |-> IF i = 0 THEN 2 * k ELSE IF i = 3 THEN 0 ELSE ProbDen - k]
One == 2 * ProbDen

(* Lines 81-92: the default rewards grid, rewards[y][x]. *)
DefaultRewards(h, w, T) ==
    [y \in 0..(h - 1) |-> [x \in 0..(w - 1) |->
        IF T # {}
        THEN IF <<x, y>> \in T THEN StochasticReward(0) ELSE StochasticReward(-1)
        ELSE IF y = h - 1 /\ x = w - 1 THEN StochasticReward(0) ELSE StochasticReward(-1)]]

(* Lines 66-70 and 92: self.terminal_states after the rewards are built. *)
TerminalStatesField(h, w, T, rewardsGiven) ==
    IF ~rewardsGiven /\ T = {} THEN {<<h - 1, w - 1>>} ELSE T

encode_state(s) == s[1] * width + s[2]
decode_state(e) == <<e \div width, e % width>>

(* A variant that tests the agent's own coordinate instead of its argument. *)
is_terminal_state_of_self(s) == state \in terminal_states

is_terminal_state(s) == s \in terminal_states

(* rewards[y][x] raises IndexError outside the grid (the indices here are  *)
(* never negative).                                                        *)
InGrid(x, y) == y \in DOMAIN rewards /\ x \in DOMAIN rewards[y]
get_reward(s, a, next_state) == rewards[next_state[2]][next_state[1]]
get_sampled_reward(s, a, next_state) == sample(rewards[next_state[2]][next_state[1]])
get_expected_reward(s, a, next_state) == expected_value(rewards[next_state[2]][next_state[1]])

----------------------------------------------------------------------------
(* Successor features: get_weights and get_feature_vector. *)

(* numpy.unique over the reward grid: the distinct reward values in        *)
(* ascending order, indexed from 0.                                        *)
RewardValues == {expected_value(rewards[y][x]) : <<x, y>> \in Cells(height, width)}
np_unique(S) ==
    [i \in 0..(Cardinality(S) - 1) |-> CHOOSE v \in S : Cardinality({u \in S : u < v}) = i]
np_append(a, b) ==
    LET la == Cardinality(DOMAIN a)
        lb == Cardinality(DOMAIN b)
    IN [i \in 0..(la + lb - 1) |-> IF i < la THEN a[i] ELSE b[i - la]]
np_zeros(n) == [i \in 0..(n - 1) |-> 0]
len(a) == Cardinality(DOMAIN a)

(* Lines 197-200 read expected_rewards[y][x] for (x, y) = decode_state(s), *)
(* s in range(n_states): an IndexError when that cell is outside the grid. *)
DecodedOutsideGrid ==
    \E s \in 0..(n_states - 1) : ~InGrid(decode_state(s)[1], decode_state(s)[2])
get_weights_raises == task # TaskB /\ DecodedOutsideGrid

(* A variant that reads the reward grid transposed under the default task. *)
get_weights_transposed ==
    IF task = TaskB
    THEN LET w == np_unique(RewardValues)
         IN IF len(w) < distinct_rewards
            THEN np_append(np_zeros(distinct_rewards - len(w)), w)
            ELSE w
    ELSE [s \in 0..(n_states - 1) |->
            expected_value(rewards[decode_state(s)[1]][decode_state(s)[2]])]

(* A variant that pads with zeros after the distinct values. *)
get_weights_zeros_last ==
    IF task = TaskB
    THEN LET w == np_unique(RewardValues)
         IN IF len(w) < distinct_rewards
            THEN np_append(w, np_zeros(distinct_rewards - len(w)))
            ELSE w
    ELSE [s \in 0..(n_states - 1) |->
            expected_value(rewards[decode_state(s)[2]][decode_state(s)[1]])]

get_weights ==
    IF task = TaskB
    THEN LET w == np_unique(RewardValues)
         IN IF len(w) < distinct_rewards
            THEN np_append(np_zeros(distinct_rewards - len(w)), w)
            ELSE w
    ELSE [s \in 0..(n_states - 1) |->
            expected_value(rewards[decode_state(s)[2]][decode_state(s)[1]])]

get_feature_vector_raises(s, a, next_state) ==
    task # TaskB /\ encode_state(next_state) \notin 0..(n_weights - 1)

(* A variant that indicates the next state under both tasks. *)
get_feature_vector_by_state(s, a, next_state) ==
    [i \in 0..(n_states - 1) |-> IF i = encode_state(next_state) THEN 1 ELSE 0]

get_feature_vector(s, a, next_state) ==
    IF task = TaskB
    THEN LET reward == get_reward(s, a, next_state)
         IN [i \in DOMAIN weights |-> IF weights[i] = expected_value(reward) THEN 1 ELSE 0]
    ELSE [i \in 0..(n_weights - 1) |-> IF i = encode_state(next_state) THEN 1 ELSE 0]

(* A variant that encodes the cells of barrier_states. *)
BarrierSet_of_barrier_states == {encode_state(b) : b \in barrier_states}

(* Lines 116-126. *)
BarrierSet ==
    {s \in 0..(n_states - 1) :
        get_expected_reward(decode_state(s), 0, decode_state(s)) < 0}
DangerSets(bs) == SetToBag({{element} : element \in bs})

----------------------------------------------------------------------------
(* Agent movement. *)

(* A variant whose move to the right does not look at the barriers. *)
move_agent_right_unchecked(action) ==
    LET x == state[1]
        y == state[2]
    IN IF action = UP /\ y < height - 1 /\ <<x, y + 1>> \notin barrier_states
       THEN <<x, y + 1>>
       ELSE IF action = DOWN /\ y > 0 /\ <<x, y - 1>> \notin barrier_states
       THEN <<x, y - 1>>
       ELSE IF action = LEFT /\ x > 0 /\ <<x - 1, y>> \notin barrier_states
       THEN <<x - 1, y>>
       ELSE IF action = RIGHT /\ x < width - 1
       THEN <<x + 1, y>>
       ELSE <<x, y>>

move_agent(action) ==
    LET x == state[1]
        y == state[2]
    IN IF action = UP /\ y < height - 1 /\ <<x, y + 1>> \notin barrier_states
       THEN <<x, y + 1>>
       ELSE IF action = DOWN /\ y > 0 /\ <<x, y - 1>> \notin barrier_states
       THEN <<x, y - 1>>
       ELSE IF action = LEFT /\ x > 0 /\ <<x - 1, y>> \notin barrier_states
       THEN <<x - 1, y>>
       ELSE IF action = RIGHT /\ x < width - 1 /\ <<x + 1, y>> \notin barrier_states
       THEN <<x + 1, y>>
       ELSE <<x, y>>

(* A variant that gives the opposite action the left neighbour's share. *)
set_action_probabilities_opposite(action) ==
    LET right_action == actions[(action + 1) % n_actions]
        left_action == actions[(action - 1) % n_actions]
        down_action == actions[(action + 2) % n_actions]
        p0 == [i \in 0..(n_actions - 1) |-> 0]
        p1 == [p0 EXCEPT ![action] = transition_probabilities[0]]
        p2 == [p1 EXCEPT ![right_action] = transition_probabilities[1]]
        p3 == [p2 EXCEPT ![left_action] = transition_probabilities[3]]
    IN [p3 EXCEPT ![down_action] = transition_probabilities[2]]

set_action_probabilities(action) ==
    LET right_action == actions[(action + 1) % n_actions]
        left_action == actions[(action - 1) % n_actions]
        down_action == actions[(action + 2) % n_actions]
        p0 == [i \in 0..(n_actions - 1) |-> 0]
        p1 == [p0 EXCEPT ![action] = transition_probabilities[0]]
        p2 == [p1 EXCEPT ![right_action] = transition_probabilities[1]]
        p3 == [p2 EXCEPT ![left_action] = transition_probabilities[2]]
    IN [p3 EXCEPT ![down_action] = transition_probabilities[3]]

RECURSIVE SumTo(_, _)
SumTo(p, n) == IF n = 0 THEN 0 ELSE p[n - 1] + SumTo(p, n - 1)
sum(p) == SumTo(p, len(p))

(* numpy.random.choice(a, p = probabilities) raises ValueError unless the  *)
(* probabilities are non-negative and sum to 1; it returns an entry of     *)
(* positive probability.                                                   *)
choice_raises(p) == sum(p) # One \/ \E i \in DOMAIN p : p[i] < 0
choice_support(p) == {i \in DOMAIN p : p[i] > 0}

----------------------------------------------------------------------------
(* What a call returned or raised. *)
Returned(op, e, r, d) ==
    [op |-> op, raised |-> "", encoded |-> e, reward |-> r, done |-> d, value |-> None]
ReturnedValue(op, v) ==
    [op |-> op, raised |-> "", encoded |-> NoInt, reward |-> 0, done |-> FALSE, value |-> v]
Raised(op, exc) ==
    [op |-> op, raised |-> exc, encoded |-> NoInt, reward |-> 0, done |-> FALSE, value |-> None]
NoCall == Returned("", NoInt, 0, FALSE)
(* A call of a pure method: its name, its integer argument (an action or   *)
(* an encoded state) and its coordinate argument.                          *)
Query(op, a, s) == [op |-> op, a |-> a, s |-> s]
NoQuery == Query("", NoInt, None)

(* The constructor up to line 100, for one choice of its arguments. *)
Fields(h, w, acts, k, T, B, init0, tk, dr, rewardsGiven, R) ==
    /\ args = [terminal_states |-> T, rewards_given |-> rewardsGiven, proba |-> k]
    /\ height = h
    /\ width = w
    /\ actions = acts
    /\ transition_probabilities = TransitionProbabilities(k)
    /\ terminal_states = TerminalStatesField(h, w, T, rewardsGiven)
    /\ barrier_states = B
    /\ initial_state = init0
    /\ rewards = IF rewardsGiven THEN R ELSE DefaultRewards(h, w, T)
    /\ task = tk
    /\ distinct_rewards = IF tk = TaskB THEN dr ELSE NoInt
    /\ state = None
    /\ encoded_state = NoInt
    /\ transitions = <<>>
    /\ weights = None
    /\ n_weights = NoInt
    /\ barrier_set = {}
    /\ danger_sets = EmptyBag
    /\ draw = None
    /\ pi = None
    /\ query = NoQuery
    /\ ret = NoCall

AtMostOne(S) == {{}} \cup {{c} : c \in S}
Tasks == {TaskA, TaskB}

(* The engine under the default action list, task and rewards: every grid  *)
(* size, every proba, terminal_states empty (absent), one cell or every    *)
(* cell, barrier_states empty (absent) or one cell, and initial_state      *)
(* absent or any cell of the grid.                                         *)
Init ==
    /\ pc = "new"
    /\ \E h \in 1..MaxDim, w \in 1..MaxDim, k \in 0..ProbDen :
         \E T \in AtMostOne(Cells(h, w)) \cup {Cells(h, w)},
            B \in AtMostOne(Cells(h, w)),
            init0 \in Cells(h, w) \cup {None} :
              Fields(h, w, DefaultActions, k, T, B, init0, TaskA,
                     DefaultDistinctRewards, FALSE, None)

(* Lines 103-126, once reset has put the agent at s0. *)
FinishInit(s0) ==
    /\ encoded_state' = encode_state(s0)
    /\ state' = decode_state(encode_state(s0))
    /\ transitions' = <<>>
    /\ draw' = None
    /\ IF get_weights_raises
       THEN /\ pc' = "failed"
            /\ ret' = Raised("__init__", "IndexError")
            /\ UNCHANGED derived
       ELSE /\ weights' = get_weights
            /\ n_weights' = len(get_weights)
            /\ IF DecodedOutsideGrid
               THEN /\ pc' = "failed"
                    /\ ret' = Raised("__init__", "IndexError")
                    /\ UNCHANGED <<barrier_set, danger_sets>>
               ELSE /\ pc' = "ready"
                    /\ ret' = Returned("__init__", NoInt, 0, FALSE)
                    /\ barrier_set' = BarrierSet
                    /\ danger_sets' = DangerSets(BarrierSet)

(* __init__ from line 103: the call of reset, and the rest when reset      *)
(* returns at once.                                                        *)
Construct ==
    /\ pc = "new"
    /\ IF initial_state # None
       THEN FinishInit(initial_state)
       ELSE /\ pc' = "init_reset"
            /\ UNCHANGED <<derived, state, encoded_state, transitions, draw, ret>>
    /\ UNCHANGED <<config, pi, query>>

(* A variant of reset that keeps the records of the episode before. *)
ResetCall_keeps_log ==
    /\ pc = "ready"
    /\ IF initial_state # None
       THEN /\ state' = initial_state
            /\ encoded_state' = encode_state(initial_state)
            /\ ret' = Returned("reset", encode_state(initial_state), 0, FALSE)
            /\ pc' = "ready"
       ELSE /\ pc' = "reset"
            /\ ret' = NoCall
            /\ UNCHANGED <<state, encoded_state>>
    /\ UNCHANGED <<config, derived, transitions, draw, pi, query>>

(* reset, lines 130-144, up to the loop. *)
ResetCall ==
    /\ pc = "ready"
    /\ transitions' = <<>>
    /\ IF initial_state # None
       THEN /\ state' = initial_state
            /\ encoded_state' = encode_state(initial_state)
            /\ ret' = Returned("reset", encode_state(initial_state), 0, FALSE)
            /\ pc' = "ready"
       ELSE /\ pc' = "reset"
            /\ ret' = NoCall
            /\ UNCHANGED <<state, encoded_state>>
    /\ UNCHANGED <<config, derived, draw, pi, query>>

(* One turn of reset's loop, lines 137-144: a draw, and what follows the   *)
(* loop when the draw is accepted.  A rejected draw is kept in draw with   *)
(* the parity of the number of turns taken, so that every turn is a step.  *)
Turn == IF draw = None THEN 0 ELSE draw[3]

(* A variant that draws x from one column too many. *)
ResetDraw_wide ==
    /\ pc \in {"init_reset", "reset"}
    /\ \E x \in 0..width, y \in 0..(height - 1) :
         IF <<x, y>> \notin terminal_states
         THEN IF pc = "init_reset"
              THEN FinishInit(<<x, y>>)
              ELSE /\ state' = <<x, y>>
                   /\ encoded_state' = encode_state(<<x, y>>)
                   /\ ret' = Returned("reset", encode_state(<<x, y>>), 0, FALSE)
                   /\ pc' = "ready"
                   /\ draw' = None
                   /\ UNCHANGED <<derived, transitions>>
         ELSE /\ draw' = <<x, y, 1 - Turn>>
              /\ UNCHANGED <<derived, state, encoded_state, transitions, pc, ret>>
    /\ UNCHANGED <<config, pi, query>>

(* A variant of the loop's turn that takes the first draw, terminal or not. *)
ResetDraw_first_draw ==
    /\ pc \in {"init_reset", "reset"}
    /\ \E x \in 0..(width - 1), y \in 0..(height - 1) :
         IF pc = "init_reset"
         THEN FinishInit(<<x, y>>)
         ELSE /\ state' = <<x, y>>
              /\ encoded_state' = encode_state(<<x, y>>)
              /\ ret' = Returned("reset", encode_state(<<x, y>>), 0, FALSE)
              /\ pc' = "ready"
              /\ draw' = None
              /\ UNCHANGED <<derived, transitions>>
    /\ UNCHANGED <<config, pi, query>>

(* A variant of the loop's turn that rejects barrier cells as well. *)
ResetDraw_rejects_barriers ==
    /\ pc \in {"init_reset", "reset"}
    /\ \E x \in 0..(width - 1), y \in 0..(height - 1) :
         IF <<x, y>> \notin terminal_states /\ <<x, y>> \notin barrier_states
         THEN IF pc = "init_reset"
              THEN FinishInit(<<x, y>>)
              ELSE /\ state' = <<x, y>>
                   /\ encoded_state' = encode_state(<<x, y>>)
                   /\ ret' = Returned("reset", encode_state(<<x, y>>), 0, FALSE)
                   /\ pc' = "ready"
                   /\ draw' = None
                   /\ UNCHANGED <<derived, transitions>>
         ELSE /\ draw' = <<x, y, 1 - Turn>>
              /\ UNCHANGED <<derived, state, encoded_state, transitions, pc, ret>>
    /\ UNCHANGED <<config, pi, query>>

ResetDraw ==
    /\ pc \in {"init_reset", "reset"}
    /\ \E x \in 0..(width - 1), y \in 0..(height - 1) :
         IF <<x, y>> \notin terminal_states
         THEN IF pc = "init_reset"
              THEN FinishInit(<<x, y>>)
              ELSE /\ state' = <<x, y>>
                   /\ encoded_state' = encode_state(<<x, y>>)
                   /\ ret' = Returned("reset", encode_state(<<x, y>>), 0, FALSE)
                   /\ pc' = "ready"
                   /\ draw' = None
                   /\ UNCHANGED <<derived, transitions>>
         ELSE /\ draw' = <<x, y, 1 - Turn>>
              /\ UNCHANGED <<derived, state, encoded_state, transitions, pc, ret>>
    /\ UNCHANGED <<config, pi, query>>

(* A variant of step that refuses to act from a terminal coordinate. *)
step_absorbing(input_action) ==
    /\ pc = "ready"
    /\ Len(transitions) < MaxSteps
    /\ state \notin terminal_states
    /\ LET current_state == state
           probabilities == set_action_probabilities(input_action)
       IN IF choice_raises(probabilities)
          THEN /\ ret' = Raised("step", "ValueError")
               /\ UNCHANGED <<state, encoded_state, transitions>>
          ELSE \E sampled_action \in choice_support(probabilities) :
                 LET new_state == move_agent(sampled_action)
                     reward == get_sampled_reward(current_state, sampled_action, new_state)
                     done == is_terminal_state(new_state)
                 IN /\ state' = new_state
                    /\ encoded_state' = encode_state(new_state)
                    /\ transitions' = Append(transitions,
                          <<current_state, sampled_action, reward, new_state, done>>)
                    /\ ret' = Returned("step", encode_state(new_state), reward, done)
    /\ UNCHANGED <<config, derived, pc, draw, pi, query>>

(* step, lines 279-317. *)
step(input_action) ==
    /\ pc = "ready"
    /\ Len(transitions) < MaxSteps
    /\ LET current_state == state
           probabilities == set_action_probabilities(input_action)
       IN IF choice_raises(probabilities)
          THEN /\ ret' = Raised("step", "ValueError")
               /\ UNCHANGED <<state, encoded_state, transitions>>
          ELSE \E sampled_action \in choice_support(probabilities) :
                 LET new_state == move_agent(sampled_action)
                     reward == get_sampled_reward(current_state, sampled_action, new_state)
                     done == is_terminal_state(new_state)
                 IN /\ state' = new_state
                    /\ encoded_state' = encode_state(new_state)
                    /\ transitions' = Append(transitions,
                          <<current_state, sampled_action, reward, new_state, done>>)
                    /\ ret' = Returned("step", encode_state(new_state), reward, done)
    /\ UNCHANGED <<config, derived, pc, draw, pi, query>>

Step == \E input_action \in 0..3 : step(input_action)

(* plot_trajectory, lines 387-394, up to the loop. *)
PlotCall ==
    /\ pc = "ready"
    /\ IF initial_state = None
       THEN /\ ret' = Raised("plot_trajectory", "AssertionError")
            /\ UNCHANGED <<state, encoded_state, transitions, pc>>
       ELSE /\ transitions' = <<>>
            /\ encoded_state' = encode_state(initial_state)
            /\ state' = initial_state
            /\ pc' = "plot"
            /\ ret' = NoCall
    /\ UNCHANGED <<config, derived, draw, pi, query>>

(* One turn of plot_trajectory's loop, lines 395-401.  The policy pi is    *)
(* the caller's; an entry is chosen when the loop first reads it.          *)
PlotMove ==
    /\ pc = "plot"
    /\ IF state \in terminal_states
       THEN /\ pc' = "ready"
            /\ pi' = None
            /\ ret' = Returned("plot_trajectory", NoInt, 0, FALSE)
            /\ UNCHANGED state
       ELSE /\ \E action \in 0..3 :
                 /\ encode_state(state) \in DOMAIN pi => action = pi[encode_state(state)]
                 /\ pi' = (encode_state(state) :> action) @@ pi
                 /\ state' = move_agent(action)
            /\ UNCHANGED <<pc, ret>>
    /\ UNCHANGED <<config, derived, encoded_state, transitions, draw, query>>

(* The engine under construction, reset and step calls. *)
Next == Construct \/ ResetCall \/ ResetDraw \/ Step

Spec == Init /\ [][Next]_vars

(* The engine under plot_trajectory calls as well. *)
NextPlot == Next \/ PlotCall \/ PlotMove

SpecPlot == Init /\ [][NextPlot]_vars

(* reset's loop keeps drawing while it has not returned. *)
FairSpec == Spec /\ WF_vars(ResetDraw)

(* A turn of reset's loop whose draw passes the test of line 139.          *)
AcceptedDraw == ResetDraw /\ draw' = None

(* Fair draws: np.random.randint gives every coordinate a positive         *)
(* probability at every turn, so a draw that passes the test, possible at  *)
(* every turn, is made eventually.                                         *)
FairDrawSpec == FairSpec /\ WF_vars(AcceptedDraw)

----------------------------------------------------------------------------
(* The state codec as pure functions of the grid's dimensions.             *)
MaxCodecDim == 4     \* height and width range over 1..MaxCodecDim here

InitCodec ==
    /\ pc = "pure"
    /\ \E h \in 1..MaxCodecDim, w \in 1..MaxCodecDim :
         Fields(h, w, DefaultActions, ProbDen, {}, {}, None, TaskA,
                DefaultDistinctRewards, FALSE, None)

EncodeState ==
    /\ pc = "pure"
    /\ \E c \in Cells(height, width) :
         /\ query' = Query("encode_state", NoInt, c)
         /\ ret' = Returned("encode_state", encode_state(c), 0, FALSE)
    /\ UNCHANGED <<config, derived, state, encoded_state, transitions, pc, draw, pi>>

DecodeState ==
    /\ pc = "pure"
    /\ \E e \in 0..(n_states - 1) :
         /\ query' = Query("decode_state", e, None)
         /\ ret' = ReturnedValue("decode_state", decode_state(e))
    /\ UNCHANGED <<config, derived, state, encoded_state, transitions, pc, draw, pi>>

NextCodec == EncodeState \/ DecodeState

SpecCodec == InitCodec /\ [][NextCodec]_vars

----------------------------------------------------------------------------
(* set_action_probabilities as a pure function of the action list, proba   *)
(* and the intended action.                                                *)
Orderings(S) == {f \in [0..(Cardinality(S) - 1) -> S] : \A v \in S : \E i \in DOMAIN f : f[i] = v}

InitProba ==
    /\ pc = "pure"
    /\ \E k \in 0..ProbDen, acts \in Orderings({UP, RIGHT, DOWN, LEFT}) :
         Fields(1, 1, acts, k, {}, {}, None, TaskA, DefaultDistinctRewards, FALSE, None)

SetActionProbabilities ==
    /\ pc = "pure"
    /\ \E action \in 0..(n_actions - 1) :
         /\ query' = Query("set_action_probabilities", action, None)
         /\ ret' = ReturnedValue("set_action_probabilities", set_action_probabilities(action))
    /\ UNCHANGED <<config, derived, state, encoded_state, transitions, pc, draw, pi>>

NextProba == SetActionProbabilities

SpecProba == InitProba /\ [][NextProba]_vars

----------------------------------------------------------------------------
(* The feature model: construction under both tasks, over default and      *)
(* numeric reward grids, and get_feature_vector on the constructed engine. *)
MaxDistinct == 3     \* distinct_rewards ranges over 1..MaxDistinct
RewardRange == {-1, 0, 1}

(* Lines 94-96: a numeric grid is wrapped cell by cell. *)
NumericRewards(h, w) ==
    {[y \in 0..(h - 1) |-> [x \in 0..(w - 1) |-> StochasticReward(g[y][x])]] :
        g \in [0..(h - 1) -> [0..(w - 1) -> RewardRange]]}

InitFeature ==
    /\ pc = "new"
    /\ \E h \in 1..MaxDim, w \in 1..MaxDim, tk \in Tasks, dr \in 1..MaxDistinct :
         /\ tk = TaskA => dr = DefaultDistinctRewards
         /\ \/ \E T \in AtMostOne(Cells(h, w)) :
                 Fields(h, w, DefaultActions, ProbDen, T, {}, <<0, 0>>, tk, dr, FALSE, None)
            \/ \E R \in NumericRewards(h, w) :
                 Fields(h, w, DefaultActions, ProbDen, {}, {}, <<0, 0>>, tk, dr, TRUE, R)

GetFeatureVector ==
    /\ pc = "ready"
    /\ \E next_state \in Cells(height, width) :
         /\ query' = Query("get_feature_vector", UP, next_state)
         /\ ret' = IF get_feature_vector_raises(state, UP, next_state)
                   THEN Raised("get_feature_vector", "IndexError")
                   ELSE ReturnedValue("get_feature_vector",
                                      get_feature_vector(state, UP, next_state))
    /\ UNCHANGED <<config, derived, state, encoded_state, transitions, pc, draw, pi>>

NextFeature == Construct \/ GetFeatureVector

SpecFeature == InitFeature /\ [][NextFeature]_vars

----------------------------------------------------------------------------
(* The claims. *)

Last(q) == q[Len(q)]
StepReturned == ret.op = "step" /\ ret.raised = ""
Constructed == pc \in {"ready", "reset", "plot"}
ConstructorEnded == Constructed \/ pc = "failed"

(* C1: the agent's coordinate after a step is never a member of            *)
(* barrier_states, for any barrier list and any initial_state.  The code   *)
(* breaks it: reset may put the agent on a barrier cell (a configured      *)
(* initial_state, or a draw, which rejects terminal cells only), and a     *)
(* blocked step leaves it there.                                           *)
C1_BarrierInvariant ==
    \A i \in 1..Len(transitions) : transitions[i][4] \notin barrier_states

(* C2: decode_state(encode_state(c)) = c for every coordinate c of the     *)
(* grid, and encode_state(decode_state(s)) = s for every encoded state s   *)
(* in [0, height * width), on square and non-square grids.  The code       *)
(* breaks the first half when height > width.                              *)
C2_RoundTrip ==
    /\ query.op = "encode_state" => decode_state(ret.encoded) = query.s
    /\ query.op = "decode_state" => encode_state(ret.value) = query.a

(* C3: the done flag a step returns is TRUE exactly when the coordinate    *)
(* the agent occupies after that step is in terminal_states, and the       *)
(* appended transition record holds the same flag.                         *)
C3_TerminalDetection ==
    /\ \A i \in 1..Len(transitions) :
         transitions[i][5] = (transitions[i][4] \in terminal_states)
    /\ StepReturned =>
         /\ Len(transitions) > 0
         /\ Last(transitions)[4] = state
         /\ ret.done = (state \in terminal_states)
         /\ Last(transitions)[5] = ret.done

(* A step from a non-terminal coordinate has reached a terminal one and    *)
(* returned done.                                                          *)
C3_Witness ==
    /\ StepReturned
    /\ ret.done
    /\ state \in terminal_states
    /\ Last(transitions)[1] \notin terminal_states

(* C4: for every proba, every ordering of the codes 0..3 as the action     *)
(* list and every intended action, set_action_probabilities returns 4      *)
(* entries, each >= 0, that sum to 1.  The code breaks it for an ordering  *)
(* that does not keep the intended action at its own index.                *)
C4_ProbabilityConservation ==
    query.op = "set_action_probabilities" =>
        /\ len(ret.value) = 4
        /\ \A i \in DOMAIN ret.value : ret.value[i] >= 0
        /\ sum(ret.value) = One

(* C5: once the constructor has run with no rewards argument, an in-bounds *)
(* cell has expected reward 0 if it is in terminal_states and -1           *)
(* otherwise, and with no terminal states supplied terminal_states is      *)
(* exactly the bottom-right cell (width - 1, height - 1).  The code        *)
(* registers (height - 1, width - 1) instead.                              *)
C5_DefaultRewards ==
    (ConstructorEnded /\ ~args.rewards_given) =>
        /\ \A c \in Cells(height, width) :
             get_expected_reward(c, 0, c) = (IF c \in terminal_states THEN 0 ELSE -1)
        /\ args.terminal_states = {} => terminal_states = {<<width - 1, height - 1>>}

(* C6: when every coordinate of the grid is terminal and no initial_state  *)
(* is configured, reset (the constructor's included) ends in an error      *)
(* instead of drawing for ever.  The code draws for ever.                  *)
Degenerate == initial_state = None /\ Cells(height, width) \subseteq terminal_states
C6_DegenerateRaises ==
    (Degenerate /\ pc \in {"init_reset", "reset"}) ~> (ret.raised # "")

(* C7: in every step, if the cell next to the current coordinate in the    *)
(* executed action's direction (UP: y + 1, DOWN: y - 1, LEFT: x - 1,       *)
(* RIGHT: x + 1) is out of bounds or a barrier, the agent stays, the       *)
(* reward is the current cell's and done holds only if the current cell is *)
(* terminal; otherwise the agent's coordinate becomes exactly that cell.   *)
Neighbour(c, a) ==
    CASE a = UP -> <<c[1], c[2] + 1>>
      [] a = DOWN -> <<c[1], c[2] - 1>>
      [] a = LEFT -> <<c[1] - 1, c[2]>>
      [] a = RIGHT -> <<c[1] + 1, c[2]>>
Blocked(c, a) ==
    Neighbour(c, a) \notin Cells(height, width) \/ Neighbour(c, a) \in barrier_states
C7_BlockedMovement ==
    /\ \A i \in 1..Len(transitions) :
         LET current == transitions[i][1]
             executed == transitions[i][2]
             reward == transitions[i][3]
             after == transitions[i][4]
             done == transitions[i][5]
         IN IF Blocked(current, executed)
            THEN /\ after = current
                 /\ reward = get_expected_reward(current, executed, current)
                 /\ done => current \in terminal_states
            ELSE after = Neighbour(current, executed)
    /\ StepReturned =>
         /\ state = Last(transitions)[4]
         /\ ret.reward = Last(transitions)[3]
         /\ ret.done = Last(transitions)[5]

(* A step whose executed action pointed at a barrier cell inside the grid  *)
(* has left the agent where it was.                                        *)
C7_Witness ==
    /\ StepReturned
    /\ Neighbour(Last(transitions)[1], Last(transitions)[2]) \in barrier_states
    /\ state = Last(transitions)[1]

(* C8: after construction and after every completed reset, step or         *)
(* plot_trajectory call, encoded_state = encode_state(state) and           *)
(* encoded_state is in [0, height * width).  plot_trajectory breaks it: it *)
(* moves state and leaves encoded_state at the initial state's code.       *)
C8_EncodedConsistency ==
    pc = "ready" =>
        /\ encoded_state = encode_state(state)
        /\ encoded_state \in 0..(n_states - 1)

(* C9: under both tasks and for every in-bounds next_state,                *)
(* get_feature_vector returns a vector as long as the weight vector        *)
(* get_weights returns, which is n_weights long.                           *)
C9_FeatureShape ==
    query.op = "get_feature_vector" =>
        /\ ret.raised = ""
        /\ len(ret.value) = len(get_weights)
        /\ len(ret.value) = n_weights

(* A feature vector returned under "Same Blocks, Varying Values" on a grid *)
(* with more states than weights.                                          *)
C9_Witness ==
    /\ query.op = "get_feature_vector"
    /\ task = TaskB
    /\ ret.raised = ""
    /\ len(ret.value) = n_weights
    /\ n_weights < n_states

(* C10: for every positive height and width, width # height included,      *)
(* construction with otherwise default arguments completes without an      *)
(* error.  The code raises IndexError on every non-square grid.            *)
C10_NonSquareAccepted ==
    (/\ args.terminal_states = {}
     /\ ~args.rewards_given
     /\ barrier_states = {}
     /\ initial_state = None
     /\ task = TaskA) => pc # "failed"

(* C11: with initial_state absent or in bounds, after construction and     *)
(* after any sequence of reset and step calls the agent's coordinate       *)
(* (x, y) satisfies 0 <= x < width and 0 <= y < height.                    *)
C11_GridBound ==
    Constructed =>
        /\ 0 <= state[1] /\ state[1] < width
        /\ 0 <= state[2] /\ state[2] < height

(* A step whose executed action pointed out of the grid has left the agent *)
(* inside it.                                                              *)
C11_Witness ==
    /\ StepReturned
    /\ Neighbour(Last(transitions)[1], Last(transitions)[2]) \notin Cells(height, width)
    /\ state \in Cells(height, width)

(* C12: with the default action list, the action a step executes (and      *)
(* records) is the intended one or one of (intended + 1) mod 4 and         *)
(* (intended - 1) mod 4, never the opposite (intended + 2) mod 4; and when *)
(* proba is 1 it is the intended one, so that the coordinate after the     *)
(* step is the one move_agent gives for the intended action (UP from a     *)
(* cell with a free cell above it gives (x, y + 1)).                       *)
C12_DriftModel ==
    [][(pc = "ready" /\ ret'.op = "step" /\ ret'.raised = "") =>  \* a step returns
         \A intended \in 0..3 :
             LET executed == Last(transitions')[2]
                 drifted ==
                     /\ executed \in {intended, (intended + 1) % 4, (intended - 1) % 4}
                     /\ executed # (intended + 2) % 4
                     /\ args.proba = ProbDen =>
                          /\ executed = intended
                          /\ state' = (IF Blocked(state, intended)
                                       THEN state ELSE Neighbour(state, intended))
             IN (actions = DefaultActions /\ ~drifted) => ~step(intended)]_vars

(* With proba 1 and no barriers, a step has executed UP and moved the      *)
(* agent one cell up.                                                      *)
C12_Witness ==
    /\ StepReturned
    /\ args.proba = ProbDen
    /\ barrier_states = {}
    /\ Last(transitions)[2] = UP
    /\ state = <<Last(transitions)[1][1], Last(transitions)[1][2] + 1>>

(* C13: reset empties the trajectory log and each step appends exactly one *)
(* record (pre-step coordinate, executed action, reward, post-step         *)
(* coordinate, done) and keeps the earlier records; so a reset leaves an   *)
(* empty log at the coordinate it chose, the first record's state is that  *)
(* coordinate, each record's next_state is the following record's state,   *)
(* and the last record's next_state is the current coordinate.             *)
C13_TrajectoryLog ==
    [][/\ (pc' = "reset" \/ ret'.op = "reset") => transitions' = <<>>
       /\ (pc = "ready" /\ ret'.op = "step" /\ ret'.raised = "") =>  \* a step returns
            /\ Len(transitions') = Len(transitions) + 1
            /\ SubSeq(transitions', 1, Len(transitions)) = transitions
            /\ Last(transitions')[1] = state
            /\ Last(transitions')[4] = state'
            /\ Last(transitions')[3] = ret'.reward
            /\ Last(transitions')[5] = ret'.done
            /\ (transitions # <<>> => Last(transitions)[4] = state)
       /\ (pc' = "ready" /\ transitions' # <<>>) =>
            /\ Last(transitions')[4] = state'
            /\ \A i \in 1..(Len(transitions') - 1) :
                 transitions'[i][4] = transitions'[i + 1][1]]_vars

(* Two steps after a reset: the log holds two chained records. *)
C13_Witness ==
    /\ StepReturned
    /\ Len(transitions) = 2
    /\ transitions[1][4] = transitions[2][1]
    /\ transitions[2][4] = state
    /\ transitions[1][1] # transitions[1][4]

(* C14: after every reset (the constructor's included), the agent's        *)
(* coordinate is initial_state when one is configured, and otherwise is in *)
(* bounds and not in terminal_states; the value reset returns is           *)
(* encode_state of that coordinate, x * width + y.                         *)
C14_ResetPostcondition ==
    (pc = "ready" /\ ret.op \in {"reset", "__init__"} /\ ret.raised = "") =>
        /\ initial_state # None => state = initial_state
        /\ initial_state = None =>
             /\ 0 <= state[1] /\ state[1] < width
             /\ 0 <= state[2] /\ state[2] < height
             /\ state \notin terminal_states
        /\ ret.op = "reset" =>
             /\ ret.encoded = state[1] * width + state[2]
             /\ ret.encoded = encoded_state

(* A reset without initial_state has returned on a grid that has a         *)
(* terminal cell.                                                          *)
C14_Witness ==
    /\ pc = "ready"
    /\ ret.op = "reset"
    /\ initial_state = None
    /\ terminal_states # {}
    /\ state \notin terminal_states
    /\ ret.encoded = encode_state(state)

(* C15: with no initial_state configured and at least one in-bounds        *)
(* coordinate outside terminal_states, a reset that is in its loop (the    *)
(* constructor's too) eventually leaves it, under fair draws.              *)
InResetLoop == pc \in {"init_reset", "reset"}
C15_ResetTermination ==
    (/\ InResetLoop
     /\ initial_state = None
     /\ \E c \in Cells(height, width) : c \notin terminal_states)
        ~> ~InResetLoop

(* A reset is in its loop after a draw was rejected, on a grid that has a  *)
(* cell the loop accepts.                                                  *)
C15_Witness ==
    /\ pc = "reset"
    /\ draw # None
    /\ <<draw[1], draw[2]>> \in terminal_states
    /\ \E c \in Cells(height, width) : c \notin terminal_states

(* C16: step has no guard on a terminal coordinate: from a terminal cell   *)
(* every action can still be stepped, the movement is resolved as from any *)
(* other cell (the agent stays when blocked and moves to the neighbour     *)
(* otherwise), done tells whether the cell reached is terminal, so it is   *)
(* False on a non-terminal neighbour, and the record is appended.          *)
C16_TerminalNotAbsorbing ==
    /\ (pc = "ready" /\ state \in terminal_states /\ Len(transitions) < MaxSteps) =>
           \A a \in 0..3 : ENABLED (step(a) /\ Len(transitions') = Len(transitions) + 1)
    /\ \A i \in 1..Len(transitions) :
           LET from == transitions[i][1]
               executed == transitions[i][2]
               to == transitions[i][4]
           IN from \in terminal_states =>
                /\ to = (IF Blocked(from, executed) THEN from ELSE Neighbour(from, executed))
                /\ transitions[i][5] = (to \in terminal_states)

(* A step from a terminal cell has moved the agent to a non-terminal       *)
(* neighbour and returned done False.                                      *)
C16_Witness ==
    /\ StepReturned
    /\ Last(transitions)[1] \in terminal_states
    /\ Last(transitions)[4] \notin terminal_states
    /\ Last(transitions)[4] # Last(transitions)[1]
    /\ ret.done = FALSE
    /\ state = Last(transitions)[4]

(* The dot product of two vectors indexed from 0. *)
RECURSIVE DotTo(_, _, _)
DotTo(w, f, n) == IF n = 0 THEN 0 ELSE w[n - 1] * f[n - 1] + DotTo(w, f, n - 1)
Dot(w, f) == DotTo(w, f, len(w))

(* C17: under "Varying Blocks, Same Values", on a constructed grid and for *)
(* every in-bounds next_state (x, y), get_feature_vector returns a vector  *)
(* with exactly one entry 1, at index x * width + y, and zeros elsewhere,  *)
(* and the dot product of the weight vector with it is the expected reward *)
(* of the cell next_state.                                                 *)
C17_RewardDecomposition ==
    (query.op = "get_feature_vector" /\ task = TaskA) =>
        /\ ret.raised = ""
        /\ LET fv == ret.value
               hot == query.s[1] * width + query.s[2]
           IN /\ DOMAIN fv = 0..(n_states - 1)
              /\ {i \in DOMAIN fv : fv[i] = 1} = {hot}
              /\ \A i \in DOMAIN fv : fv[i] \in {0, 1}
              /\ len(weights) = len(fv)
              /\ Dot(weights, fv) = rewards[query.s[2]][query.s[1]].mean
              /\ Dot(weights, fv) = get_expected_reward(state, query.a, query.s)

(* A feature vector returned on a grid whose reward at next_state differs  *)
(* from the reward at the mirrored cell.                                   *)
C17_Witness ==
    /\ query.op = "get_feature_vector"
    /\ task = TaskA
    /\ ret.raised = ""
    /\ query.s[1] # query.s[2]
    /\ rewards[query.s[2]][query.s[1]] # rewards[query.s[1]][query.s[2]]
    /\ Dot(weights, ret.value) = rewards[query.s[2]][query.s[1]].mean

(* C18: under "Same Blocks, Varying Values" the weight vector is the k     *)
(* distinct reward values of the grid in ascending order, preceded by      *)
(* distinct_rewards - k zeros when k < distinct_rewards and by nothing     *)
(* otherwise; its length is the larger of k and distinct_rewards.          *)
C18_VaryingValuesWeights ==
    (pc = "ready" /\ task = TaskB) =>
        LET V == {rewards[y][x].mean : x \in 0..(width - 1), y \in 0..(height - 1)}
            k == Cardinality(V)
            pad == IF k < distinct_rewards THEN distinct_rewards - k ELSE 0
        IN /\ DOMAIN weights = 0..(pad + k - 1)
           /\ len(weights) = (IF k > distinct_rewards THEN k ELSE distinct_rewards)
           /\ n_weights = len(weights)
           /\ \A i \in 0..(pad - 1) : weights[i] = 0
           /\ {weights[i] : i \in pad..(pad + k - 1)} = V
           /\ \A i, j \in pad..(pad + k - 1) : i < j => weights[i] < weights[j]

(* Rewards -1 and 0 with distinct_rewards = 3 have given [0, -1, 0]. *)
C18_Witness ==
    /\ pc = "ready"
    /\ task = TaskB
    /\ distinct_rewards = 3
    /\ {rewards[y][x].mean : x \in 0..(width - 1), y \in 0..(height - 1)} = {-1, 0}
    /\ weights = [i \in 0..2 |-> IF i = 1 THEN -1 ELSE 0]

(* barrier_set and danger_sets as the constructor leaves them: the encoded *)
(* states whose decoded cell has a negative expected reward, and one       *)
(* singleton for each of them.                                             *)
BarrierIndexSetBuilt ==
    /\ barrier_set = {s \in 0..(height * width - 1) :
                         rewards[s % width][s \div width].mean < 0}
    /\ BagToSet(danger_sets) = {{s} : s \in barrier_set}
    /\ \A d \in BagToSet(danger_sets) : CopiesIn(d, danger_sets) = 1
    /\ barrier_set = BarrierSet
    /\ danger_sets = DangerSets(BarrierSet)

(* C19: after construction barrier_set is exactly the set of encoded       *)
(* states s in [0, height * width) whose cell decode_state(s) has a        *)
(* negative expected reward, whatever barrier_states is, danger_sets holds *)
(* exactly one singleton {s} per element of barrier_set, and both are     *)
(* still the constructor's values after any reset and step calls.          *)
C19_BarrierIndexSet == Constructed => BarrierIndexSetBuilt

(* A step has returned on a grid with no barrier cell and a non-empty      *)
(* barrier_set, after a reset.                                             *)
C19_Witness ==
    /\ StepReturned
    /\ barrier_states = {}
    /\ barrier_set # {}
    /\ encode_state(state) \in barrier_set
    /\ BagCardinality(danger_sets) = Cardinality(barrier_set)

====
